---- MODULE Spec2Model ----
(***************************************************************************)
(* Model of src/hash_builder/value.rs: HashBuilderValue, the reusable      *)
(* value slot of the hash builder, and HashBuilderValueRef, its borrowed   *)
(* view.  Bytes are integers 0..255, byte strings and B256 values are      *)
(* sequences of bytes, text is a sequence of one-character strings.        *)
(* vals[s] holds the fields of a value, cap[s] is vals[s].buf.capacity().  *)
(***************************************************************************)
EXTENDS Integers, Sequences, FiniteSets, TLC

VARIABLES vals, cap, last

vars == <<vals, cap, last>>

(* ---------------------------- bounds ----------------------------------- *)

\* longest leaf payload enumerated exhaustively over ByteSamples
MaxLen == 1

\* the independent HashBuilderValue instances that are followed
Slots == {"a", "b"}

\* sample byte values: a zero byte and a byte with two different nibbles
ByteSamples == {0, 31}

(* --------------------------- primitives -------------------------------- *)

\* size in bytes of alloy_primitives::B256
B256_len == 32

Rep(b, n) == [i \in 1..n |-> b]

\* B256::default(): thirty-two zero bytes
B256_default == Rep(0, B256_len)

\* the B256 values used as inputs: zero, 0x11..11 and a non-uniform one
B256Samples ==
    { B256_default,
      Rep(17, B256_len),
      [i \in 1..B256_len |-> IF i = 1 THEN 171 ELSE IF i = B256_len THEN 4 ELSE 17] }

\* the byte strings used as inputs: every short string over ByteSamples,
\* the four bytes 0xaa, and the thirty-two bytes of every sample B256
BytesSamples ==
    UNION { [1..n -> ByteSamples] : n \in 0..MaxLen }
      \cup { Rep(170, 4) }
      \cup B256Samples

(* ------------------------ HashBuilderValueKind ------------------------- *)

HashBuilderValueKind == {"Bytes", "Hash"}

HashBuilderValueKind_default == "Bytes"

(* ------------------------- HashBuilderValueRef ------------------------- *)

Bytes(bytes) == [variant |-> "Bytes", data |-> bytes]

Hash(hash) == [variant |-> "Hash", data |-> hash]

\* HashBuilderValueRef::as_slice
ref_as_slice(value) == value.data

\* kind with the variant guessed from the length of the bytes
kind_by_length(value) == IF Len(value.data) = 32 THEN "Hash" ELSE "Bytes"

\* HashBuilderValueRef::kind
kind(value) == IF value.variant = "Bytes" THEN "Bytes" ELSE "Hash"

\* the views a caller can build from data of its own
RefSamples == { Bytes(b) : b \in BytesSamples } \cup { Hash(h) : h \in B256Samples }

(* --------------------------- HashBuilderValue -------------------------- *)

\* HashBuilderValue::default / HashBuilderValue::new
new == [buf |-> <<>>, kind |-> HashBuilderValueKind_default, _hash |-> B256_default]

\* the debug_assert_eq! of as_ref: TRUE when it passes
as_ref_debug_assert(self) == self.kind = "Hash" => Len(self.buf) = 32

\* HashBuilderValue::as_ref
as_ref(self) ==
    IF self.kind = "Bytes" THEN Bytes(self.buf) ELSE Hash(self._hash)

\* HashBuilderValue::as_slice
as_slice(self) == self.buf

\* set_bytes_owned that also resets _hash
set_bytes_owned_zero_hash(self, bytes) ==
    [buf |-> bytes, kind |-> "Bytes", _hash |-> B256_default]

\* set_bytes_owned without the assignment to kind
set_bytes_owned_keep_kind(self, bytes) ==
    [self EXCEPT !.buf = bytes]

\* HashBuilderValue::set_bytes_owned
set_bytes_owned(self, bytes) ==
    [self EXCEPT !.buf = bytes, !.kind = "Bytes"]

\* set_from_ref that resets _hash nowhere: a Bytes view keeps the old one
set_from_ref_stale_on_bytes(self, value) ==
    [buf   |-> <<>> \o ref_as_slice(value),
     kind  |-> kind(value),
     _hash |-> IF value.variant = "Bytes" THEN self._hash ELSE value.data]

\* set_from_ref without the assignment to _hash
set_from_ref_keep_hash(self, value) ==
    [buf   |-> <<>> \o ref_as_slice(value),
     kind  |-> kind(value),
     _hash |-> self._hash]

\* HashBuilderValue::set_from_ref
set_from_ref(self, value) ==
    [buf   |-> <<>> \o ref_as_slice(value),
     kind  |-> kind(value),
     _hash |-> IF value.variant = "Bytes" THEN B256_default ELSE value.data]

\* clear without the reset of _hash
clear_keep_hash(self) ==
    [buf |-> <<>>, kind |-> HashBuilderValueKind_default, _hash |-> self._hash]

\* clear without the reset of kind
clear_keep_kind(self) ==
    [buf |-> <<>>, kind |-> self.kind, _hash |-> B256_default]

\* HashBuilderValue::clear
clear(self) ==
    [buf |-> <<>>, kind |-> HashBuilderValueKind_default, _hash |-> B256_default]

\* an equality that leaves kind out
eq_without_kind(x, y) == x.buf = y.buf /\ x._hash = y._hash

\* #[derive(PartialEq)] on HashBuilderValue: field by field
eq(x, y) == x.buf = y.buf /\ x.kind = y.kind /\ x._hash = y._hash


(* ------------------------- hex and Debug text -------------------------- *)

HEX_CHARS_LOWER ==
    <<"0", "1", "2", "3", "4", "5", "6", "7", "8", "9", "a", "b", "c", "d", "e", "f">>

\* hex::encode: two lower-case digits per byte, high nibble first
hex_encode(bytes) ==
    [i \in 1..(2 * Len(bytes)) |->
        IF i % 2 = 1
        THEN HEX_CHARS_LOWER[(bytes[(i + 1) \div 2] \div 16) + 1]
        ELSE HEX_CHARS_LOWER[(bytes[i \div 2] % 16) + 1]]

\* hex::encode_prefixed
hex_encode_prefixed(bytes) == <<"0", "x">> \o hex_encode(bytes)

hex_digit(c) == CHOOSE n \in 0..15 : HEX_CHARS_LOWER[n + 1] = c

\* hex::decode of well-formed lower-case text, with or without the 0x prefix
hex_decode(text) ==
    LET prefixed == Len(text) >= 2 /\ text[1] = "0" /\ text[2] = "x"
        digits   == IF prefixed THEN SubSeq(text, 3, Len(text)) ELSE text
    IN  [i \in 1..(Len(digits) \div 2) |->
            16 * hex_digit(digits[2 * i - 1]) + hex_digit(digits[2 * i])]

\* impl fmt::Debug for HashBuilderValueRef
fmt_ref(value) ==
    LET name == IF value.variant = "Bytes"
                THEN <<"B", "y", "t", "e", "s">>
                ELSE <<"H", "a", "s", "h">>
    IN  name \o <<"(">> \o hex_encode_prefixed(ref_as_slice(value)) \o <<")">>

\* a rendering of the raw fields: the cached hash is shown whenever it is set
fmt_raw_fields(self) ==
    IF self._hash = B256_default
    THEN fmt_ref(Bytes(self.buf))
    ELSE fmt_ref(Hash(self._hash))

\* impl fmt::Debug for HashBuilderValue
fmt(self) == fmt_ref(as_ref(self))

\* derive(Serialize): buf through hex, kind by variant name, _hash skipped
serialize(self) == [buf |-> hex_encode_prefixed(self.buf), kind |-> self.kind]

\* derive(Deserialize): the skipped _hash field is filled with its Default
deserialize(record) ==
    [buf |-> hex_decode(record.buf), kind |-> record.kind, _hash |-> B256_default]


(* ------------------------ capacity of the buffer ----------------------- *)

\* Vec::with_capacity(128) in HashBuilderValue::default
DEFAULT_CAPACITY == 128

\* smallest capacity a growing Vec<u8> allocates
MIN_NON_ZERO_CAP == 8

Max(x, y) == IF x >= y THEN x ELSE y

\* Vec::reserve as extend_from_slice calls it: capacity of a Vec of `len`
\* bytes and capacity `capacity` once room for `additional` more is ensured
reserve(capacity, len, additional) ==
    IF additional > capacity - len
    THEN Max(Max(2 * capacity, len + additional), MIN_NON_ZERO_CAP)
    ELSE capacity

\* the capacities of the caller's Vec holding `bytes`: exactly sized, or
\* allocated with room for 64 bytes
VecCapacities(bytes) == {Len(bytes)} \cup {c \in {64} : c >= Len(bytes)}

\* the capacity of Vec::new() in place of Vec::with_capacity(128)
new_capacity_unreserved == Len(<<>>)

\* capacity after HashBuilderValue::default / HashBuilderValue::new
new_capacity == DEFAULT_CAPACITY

\* set_bytes_owned copying into the buffer the value already has
set_bytes_owned_capacity_kept(self_capacity, capacity) == self_capacity

\* capacity after set_bytes_owned: the buffer is the caller's Vec
set_bytes_owned_capacity(self_capacity, capacity) == capacity

\* set_from_ref assigning a fresh copy, value.as_slice().to_vec()
set_from_ref_capacity_to_vec(self_capacity, value) == Len(ref_as_slice(value))

\* capacity after set_from_ref: buf.clear(), then extend_from_slice
set_from_ref_capacity(self_capacity, value) ==
    reserve(self_capacity, 0, Len(ref_as_slice(value)))

\* capacity after clear: Vec::clear keeps the allocation
clear_capacity(self_capacity) == self_capacity

\* capacity of the Vec that hex::deserialize builds: exactly sized
deserialize_capacity(record) == Len(hex_decode(record.buf))

(* ----------------------- randomized generators ------------------------- *)

\* the vectors a generator can draw: the sample byte strings, one of 128
\* bytes and one of 129 bytes
VecSamples == BytesSamples \cup { Rep(0, 128), Rep(31, 129) }

\* impl arbitrary::Arbitrary: kind, Vec::arbitrary and B256::arbitrary are
\* the draws; only the draw of the chosen kind is used
arbitrary(k, bytes, hash) ==
    IF k = "Bytes"
    THEN [buf |-> bytes, kind |-> k, _hash |-> B256_default]
    ELSE [buf |-> hash, kind |-> k, _hash |-> hash]

\* the length range of the proptest strategy for a kind
arbitrary_with_range(k) == IF k = "Bytes" THEN 0..128 ELSE 32..32

\* arbitrary_with that leaves the cached hash at its default
arbitrary_with_default_hash(k, bytes) ==
    [buf |-> bytes, kind |-> k, _hash |-> B256_default]

\* impl proptest::arbitrary::Arbitrary: the prop_map closure applied to a
\* vector drawn with a length in the range of the kind
arbitrary_with(k, bytes) ==
    [buf |-> bytes, kind |-> k,
     _hash |-> IF k = "Hash" THEN bytes ELSE B256_default]

(* ------------------------------ actions -------------------------------- *)

NoRef == Bytes(<<>>)

\* the call just made: its arguments, the value and capacity before it, and,
\* when the call before it was clear() on the same value, what was held then
Call(op, s, bytes, capacity, value) ==
    LET after_clear == last.op = "clear" /\ last.slot = s
    IN  [op |-> op, slot |-> s, bytes |-> bytes, capacity |-> capacity,
         value |-> value, pre |-> vals[s], pre_cap |-> cap[s],
         after_clear |-> after_clear,
         held     |-> IF after_clear THEN Len(last.pre.buf) ELSE 0,
         held_cap |-> IF after_clear THEN last.pre_cap ELSE 0]

Init ==
    /\ vals = [s \in Slots |-> new]
    /\ cap = [s \in Slots |-> new_capacity]
    /\ last = [op |-> "init", slot |-> "a", bytes |-> <<>>, capacity |-> 0,
               value |-> NoRef, pre |-> new, pre_cap |-> new_capacity,
               after_clear |-> FALSE, held |-> 0, held_cap |-> 0]

\* let v = HashBuilderValue::new()
New(s) ==
    /\ vals' = [vals EXCEPT ![s] = new]
    /\ cap' = [cap EXCEPT ![s] = new_capacity]
    /\ last' = Call("new", s, <<>>, 0, NoRef)

\* v.set_bytes_owned(bytes), bytes a Vec of the given capacity
SetBytesOwnedVec(s, bytes, capacity) ==
    /\ vals' = [vals EXCEPT ![s] = set_bytes_owned(vals[s], bytes)]
    /\ cap' = [cap EXCEPT ![s] = set_bytes_owned_capacity(cap[s], capacity)]
    /\ last' = Call("set_bytes_owned", s, bytes, capacity, NoRef)

\* v.set_bytes_owned(bytes) with every sample Vec allocated like the
\* value's own buffer, so that only the contents vary
SetBytesOwned(s) ==
    \E bytes \in BytesSamples : SetBytesOwnedVec(s, bytes, DEFAULT_CAPACITY)

\* v.set_bytes_owned(bytes) with the capacity of the caller's Vec varying
SetBytesOwnedAnyCapacity(s) ==
    \E bytes \in BytesSamples : \E capacity \in VecCapacities(bytes) :
        SetBytesOwnedVec(s, bytes, capacity)

\* v.set_from_ref(value), the view built by the caller or borrowed from
\* another value
SetFromRef(s) ==
    \E value \in RefSamples \cup { as_ref(vals[t]) : t \in Slots \ {s} } :
        /\ vals' = [vals EXCEPT ![s] = set_from_ref(vals[s], value)]
        /\ cap' = [cap EXCEPT ![s] = set_from_ref_capacity(cap[s], value)]
        /\ last' = Call("set_from_ref", s, <<>>, 0, value)

\* v.clear()
Clear(s) ==
    /\ vals' = [vals EXCEPT ![s] = clear(vals[s])]
    /\ cap' = [cap EXCEPT ![s] = clear_capacity(cap[s])]
    /\ last' = Call("clear", s, <<>>, 0, NoRef)

Next ==
    \E s \in Slots :
        \/ New(s)
        \/ SetBytesOwned(s)
        \/ SetFromRef(s)
        \/ Clear(s)

Spec == Init /\ [][Next]_vars

\* one value followed through every call, the capacity of the vectors handed
\* to set_bytes_owned varying; the other value stays as constructed
Owner == "a"

NextCapacity ==
    \/ New(Owner)
    \/ SetBytesOwnedAnyCapacity(Owner)
    \/ SetFromRef(Owner)
    \/ Clear(Owner)

SpecCapacity == Init /\ [][NextCapacity]_vars

\* v = from_record(to_record(v)) through the serde derives
SerdeRoundTrip(s) ==
    /\ vals' = [vals EXCEPT ![s] = deserialize(serialize(vals[s]))]
    /\ cap' = [cap EXCEPT ![s] = deserialize_capacity(serialize(vals[s]))]
    /\ last' = Call("deserialize", s, <<>>, 0, NoRef)

NextSerde ==
    \E s \in Slots :
        \/ New(s)
        \/ SetBytesOwned(s)
        \/ SetFromRef(s)
        \/ Clear(s)
        \/ SerdeRoundTrip(s)

SpecSerde == Init /\ [][NextSerde]_vars

\* v = HashBuilderValue::arbitrary(g)
Arbitrary(s) ==
    \E k \in HashBuilderValueKind, bytes \in VecSamples, hash \in B256Samples :
        LET v == arbitrary(k, bytes, hash)
        IN  \E capacity \in VecCapacities(v.buf) :
                /\ vals' = [vals EXCEPT ![s] = v]
                /\ cap' = [cap EXCEPT ![s] = capacity]
                /\ last' = Call("arbitrary", s, <<>>, capacity, NoRef)

\* v drawn from HashBuilderValue::arbitrary_with(())
ArbitraryWith(s) ==
    \E k \in HashBuilderValueKind :
        \E bytes \in { b \in VecSamples : Len(b) \in arbitrary_with_range(k) } :
            \E capacity \in VecCapacities(bytes) :
                /\ vals' = [vals EXCEPT ![s] = arbitrary_with(k, bytes)]
                /\ cap' = [cap EXCEPT ![s] = capacity]
                /\ last' = Call("arbitrary_with", s, <<>>, capacity, NoRef)

NextArbitrary ==
    \/ Arbitrary(Owner)
    \/ ArbitraryWith(Owner)

SpecArbitrary == Init /\ [][NextArbitrary]_vars

TypeOK ==
    /\ \A s \in Slots : vals[s].kind \in HashBuilderValueKind /\ Len(vals[s]._hash) = B256_len
    /\ last.slot \in Slots

(* ------------------------------ properties ----------------------------- *)

H11 == Rep(17, B256_len)

\* C1 - kind/buffer sync: in every state reached by set_bytes_owned,
\* set_from_ref and clear calls, a value of kind Hash has a buffer of exactly
\* 32 bytes equal to the cached hash, so the debug assertion of as_ref passes.
KindBufferSync ==
    \A s \in Slots :
        /\ vals[s].kind = "Hash" =>
              /\ Len(vals[s].buf) = 32
              /\ vals[s].buf = vals[s]._hash
        /\ as_ref_debug_assert(vals[s])

\* a value of kind Hash written over a value that held raw bytes
KindBufferSyncWitness ==
    /\ last.op = "set_from_ref"
    /\ last.pre.kind = "Bytes" /\ Len(last.pre.buf) = 1
    /\ vals[last.slot].kind = "Hash"
    /\ vals[last.slot]._hash = H11

\* C2 - round trip via view: loading the view of any reachable value into a
\* fresh value gives a value equal to it.  (Stated as claimed; set_bytes_owned
\* leaves a stale _hash behind that the view does not carry.)
RoundTripViaView ==
    \A s \in Slots : eq(set_from_ref(new, as_ref(vals[s])), vals[s])

\* C3 - equality is determined by buffer and kind: two reachable values with
\* equal buffers and equal kinds are equal.  (Stated as claimed.)
EqualityByBufferAndKind ==
    \A s, t \in Slots :
        (vals[s].buf = vals[t].buf /\ vals[s].kind = vals[t].kind)
            => eq(vals[s], vals[t])

\* C4 - cached hash is zero in raw-bytes mode: every reachable value of kind
\* Bytes has an all-zero _hash.  (Stated as claimed.)
CachedHashZeroInBytesMode ==
    \A s \in Slots : vals[s].kind = "Bytes" => vals[s]._hash = B256_default

\* C5 - clear resets kind: right after clear() the buffer is empty, the kind
\* is Bytes, the cached hash is zero and the view is the empty Bytes view,
\* rendered Bytes(0x), whatever the value held before.
ClearResetsKind ==
    last.op = "clear" =>
        LET v == vals[last.slot]
        IN  /\ v.buf = <<>>
            /\ v.kind = "Bytes"
            /\ v._hash = B256_default
            /\ as_ref(v) = Bytes(<<>>)
            /\ fmt(v) = <<"B", "y", "t", "e", "s", "(", "0", "x", ")">>

\* clear() of a value that held a hash
ClearResetsKindWitness ==
    /\ last.op = "clear"
    /\ last.pre.kind = "Hash" /\ last.pre._hash = H11
    /\ vals[last.slot].buf = <<>>

\* C6 - as_slice agrees with the view: in every reachable state as_slice()
\* equals as_ref().as_slice(); for kind Bytes the view is Bytes over the
\* buffer, for kind Hash it is Hash over the cached hash, whose bytes are the
\* 32 bytes of the buffer.
AsSliceAgreesWithView ==
    \A s \in Slots :
        LET v == vals[s]
        IN  /\ as_slice(v) = ref_as_slice(as_ref(v))
            /\ v.kind = "Bytes" => as_ref(v) = Bytes(v.buf)
            /\ v.kind = "Hash" =>
                  /\ as_ref(v) = Hash(v._hash)
                  /\ Len(as_slice(v)) = 32
                  /\ \A i \in 1..32 : as_slice(v)[i] = v._hash[i]

\* one value of kind Hash next to one of kind Bytes with a stale cached hash
AsSliceAgreesWithViewWitness ==
    \E s, t \in Slots :
        /\ vals[s].kind = "Hash" /\ vals[s]._hash # B256_default
        /\ vals[t].kind = "Bytes" /\ vals[t]._hash # B256_default
        /\ vals[t].buf # <<>>

\* C7 - set_from_ref postcondition: right after set_from_ref(r) the buffer is
\* exactly r's bytes, the kind is r's variant (a 32-byte Bytes view gives
\* Bytes), the cached hash is the hash for a Hash view and zero otherwise; for
\* Hash(H), as_slice() is the 32 bytes of H and as_ref() is Hash(H).
SetFromRefPostcondition ==
    last.op = "set_from_ref" =>
        LET v == vals[last.slot]
            r == last.value
        IN  /\ v.buf = r.data
            /\ r.variant = "Bytes" => (v.kind = "Bytes" /\ v._hash = B256_default)
            /\ r.variant = "Hash" =>
                  /\ v.kind = "Hash"
                  /\ v._hash = r.data
                  /\ as_slice(v) = r.data
                  /\ as_ref(v) = Hash(r.data)

\* a 32-byte Bytes view written over a value that held a different hash
SetFromRefPostconditionWitness ==
    /\ last.op = "set_from_ref"
    /\ last.value = Bytes(H11)
    /\ last.pre.kind = "Hash" /\ last.pre._hash # H11
    /\ vals[last.slot].kind = "Bytes"

\* C8 - set_bytes_owned postcondition and frame: right after
\* set_bytes_owned(b) the buffer is b, the kind is Bytes, the view is Bytes(b)
\* (four bytes 0xaa render as Bytes(0xaaaaaaaa)), and the cached hash is what
\* it was before the call.
SetBytesOwnedPostcondition ==
    last.op = "set_bytes_owned" =>
        LET v == vals[last.slot]
        IN  /\ v.buf = last.bytes
            /\ v.kind = "Bytes"
            /\ as_ref(v) = Bytes(last.bytes)
            /\ v._hash = last.pre._hash
            /\ last.bytes = Rep(170, 4) =>
                  fmt(v) = <<"B", "y", "t", "e", "s", "(", "0", "x",
                             "a", "a", "a", "a", "a", "a", "a", "a", ")">>

\* set_bytes_owned([0xaa; 4]) on a value that held a non-zero hash
SetBytesOwnedPostconditionWitness ==
    /\ last.op = "set_bytes_owned"
    /\ last.bytes = Rep(170, 4)
    /\ last.pre.kind = "Hash" /\ last.pre._hash = H11
    /\ vals[last.slot]._hash = H11

\* C9 - kind is part of identity: for 32 bytes x, the value built from a
\* fresh one by set_bytes_owned(x) equals the one built by
\* set_from_ref(Bytes(x)), neither equals the one built by
\* set_from_ref(Hash(x)), and the three return the same bytes from as_slice().
KindIsPartOfIdentity ==
    (/\ last.op \in {"set_bytes_owned", "set_from_ref"}
     /\ last.pre = new
     /\ Len(vals[last.slot].buf) = 32) =>
        LET x      == vals[last.slot].buf
            owned  == IF last.op = "set_bytes_owned"
                      THEN vals[last.slot] ELSE set_bytes_owned(new, x)
            copied == IF last.op = "set_from_ref" /\ last.value.variant = "Bytes"
                      THEN vals[last.slot] ELSE set_from_ref(new, Bytes(x))
            hashed == IF last.op = "set_from_ref" /\ last.value.variant = "Hash"
                      THEN vals[last.slot] ELSE set_from_ref(new, Hash(x))
        IN  /\ eq(owned, copied)
            /\ ~ eq(owned, hashed)
            /\ ~ eq(copied, hashed)
            /\ as_slice(owned) = x /\ as_slice(copied) = x /\ as_slice(hashed) = x

\* both slots built from fresh values out of the same 32 bytes, one by
\* set_bytes_owned and one by set_from_ref(Hash)
KindIsPartOfIdentityWitness ==
    \E s, t \in Slots :
        /\ last.op = "set_bytes_owned" /\ last.slot = s /\ last.pre = new
        /\ last.bytes = B256_default
        /\ vals[t] = set_from_ref(new, Hash(B256_default))

\* C10 - decode recomputes the hash: decoding the record of a value of kind
\* Hash gives a value whose cached hash equals its 32 buffer bytes, equal to
\* the encoded value, with the view Hash of the original hash.  (Stated as
\* claimed; the derive fills the skipped _hash with zero.)
DecodeRecomputesHash ==
    (last.op = "deserialize" /\ last.pre.kind = "Hash") =>
        LET v == vals[last.slot]
        IN  /\ v.kind = "Hash"
            /\ Len(v.buf) = 32
            /\ v._hash = v.buf
            /\ eq(v, last.pre)
            /\ as_ref(v) = Hash(last.pre._hash)

\* C11 - buffer reuse on the owned path, as claimed: after clear() followed
\* by set_bytes_owned(data), data no longer than the bytes held before the
\* clear, the capacity equals the capacity before clear().
BufferReuseOnOwnedPath ==
    (/\ last.op = "set_bytes_owned"
     /\ last.after_clear
     /\ Len(last.bytes) <= last.held) =>
        cap[last.slot] = last.held_cap

\* C11, amended - after clear() followed by set_bytes_owned(data) the buffer
\* is the vector that was passed in: the contents are data and the capacity
\* is that vector's capacity, whatever the capacity before clear() was.
OwnedPathTakesCallerAllocation ==
    (last.op = "set_bytes_owned" /\ last.after_clear) =>
        /\ vals[last.slot].buf = last.bytes
        /\ cap[last.slot] = last.capacity

\* clear() of a value holding four bytes, then set_bytes_owned of a shorter
\* vector whose capacity differs from the one held before
OwnedPathTakesCallerAllocationWitness ==
    /\ last.op = "set_bytes_owned"
    /\ last.after_clear
    /\ last.held = 4 /\ Len(last.bytes) = 1
    /\ last.held_cap # last.capacity
    /\ cap[last.slot] = last.capacity

\* C13 - initial state: a value as constructed, and a value rebuilt by new(),
\* has an empty buffer of capacity 128, kind Bytes, an all-zero cached hash
\* and the empty Bytes view.
InitialState ==
    \A s \in Slots :
        (last.op = "init" \/ (last.op = "new" /\ last.slot = s)) =>
            /\ Len(vals[s].buf) = 0
            /\ cap[s] = 128
            /\ vals[s].kind = "Bytes"
            /\ vals[s]._hash = Rep(0, 32)
            /\ as_ref(vals[s]) = Bytes(<<>>)

\* new() in place of a value that held a hash in a buffer of another capacity
InitialStateWitness ==
    /\ last.op = "new"
    /\ last.pre.kind = "Hash" /\ last.pre_cap # DEFAULT_CAPACITY
    /\ cap[last.slot] = DEFAULT_CAPACITY

\* C15 - allocation is kept by clear and set_from_ref: clear() leaves the
\* length 0 and the capacity unchanged; set_from_ref(r) with r no longer than
\* the capacity leaves the capacity unchanged; neither call ever lowers the
\* capacity.
AllocationKept ==
    LET s == last.slot
    IN  /\ last.op = "clear" =>
              (Len(vals[s].buf) = 0 /\ cap[s] = last.pre_cap)
        /\ last.op = "set_from_ref" =>
              /\ Len(last.value.data) <= last.pre_cap => cap[s] = last.pre_cap
              /\ cap[s] >= last.pre_cap
              /\ cap[s] >= Len(vals[s].buf)

\* set_from_ref after clear() into a buffer smaller than the default one and
\* large enough for the view
AllocationKeptWitness ==
    /\ last.op = "set_from_ref"
    /\ last.after_clear /\ last.held > 0
    /\ last.pre_cap < DEFAULT_CAPACITY
    /\ Len(last.value.data) > 0 /\ Len(last.value.data) <= last.pre_cap
    /\ cap[last.slot] = last.held_cap

\* C17 - clear returns to the initial value: right after clear() the value
\* equals new() under the derived equality (capacity is not compared), and a
\* second clear() changes nothing.
ClearReturnsToInitial ==
    LET s == last.slot
    IN  last.op = "clear" =>
            /\ eq(vals[s], new)
            /\ clear(vals[s]) = vals[s]
            /\ clear_capacity(cap[s]) = cap[s]
            /\ last.after_clear => (vals[s] = last.pre /\ cap[s] = last.pre_cap)

\* the second of two clear() calls on a value that held 32 bytes in a buffer
\* of another capacity than the initial one
ClearReturnsToInitialWitness ==
    /\ last.op = "clear"
    /\ last.after_clear /\ last.held = 32
    /\ cap[last.slot] # new_capacity
    /\ eq(vals[last.slot], new)

\* C12 - Debug shows only the effective view: two values of kind Bytes with
\* equal buffers render identically, as Bytes(0x<hex of the buffer>),
\* whatever their cached hashes; a value of kind Hash renders as
\* Hash(0x<hex of the hash>).
DebugShowsEffectiveView ==
    \A s, t \in Slots :
        /\ (vals[s].kind = "Bytes" /\ vals[t].kind = "Bytes"
                /\ vals[s].buf = vals[t].buf) => fmt(vals[s]) = fmt(vals[t])
        /\ vals[s].kind = "Bytes" =>
              fmt(vals[s]) = <<"B", "y", "t", "e", "s", "(", "0", "x">>
                               \o hex_encode(vals[s].buf) \o <<")">>
        /\ vals[s].kind = "Hash" =>
              fmt(vals[s]) = <<"H", "a", "s", "h", "(", "0", "x">>
                               \o hex_encode(vals[s]._hash) \o <<")">>
        /\ (vals[s].kind = "Bytes" /\ vals[s].buf = <<0>>) =>
              fmt(vals[s]) = <<"B", "y", "t", "e", "s", "(", "0", "x", "0", "0", ")">>
        /\ (vals[s].kind = "Hash" /\ vals[s]._hash = H11) =>
              fmt(vals[s]) = <<"H", "a", "s", "h", "(", "0", "x">>
                               \o Rep("1", 64) \o <<")">>

\* two values of kind Bytes with the same non-empty buffer, one of them with
\* the stale hash that set_from_ref(Hash), set_bytes_owned leaves
DebugShowsEffectiveViewWitness ==
    \E s, t \in Slots :
        /\ vals[s].kind = "Bytes" /\ vals[t].kind = "Bytes"
        /\ vals[s].buf = vals[t].buf /\ vals[s].buf # <<>>
        /\ vals[s]._hash = H11 /\ vals[t]._hash = B256_default
        /\ last.op = "set_bytes_owned" /\ last.slot = s /\ last.pre.kind = "Hash"

\* C14 - generated instances are structurally valid, as claimed: every
\* instance of either generator is of kind Bytes with 0 to 128 bytes and a
\* zero cached hash, or of kind Hash with exactly 32 bytes equal to the
\* cached hash.
GeneratedInstancesValid ==
    last.op \in {"arbitrary", "arbitrary_with"} =>
        LET v == vals[last.slot]
        IN  \/ (v.kind = "Bytes" /\ Len(v.buf) <= 128 /\ v._hash = B256_default)
            \/ (v.kind = "Hash" /\ Len(v.buf) = 32 /\ v.buf = v._hash)

\* C14, amended - every instance of either generator is of kind Bytes with a
\* zero cached hash, its buffer of 0 to 128 bytes when it comes from the
\* proptest generator and of any length when it comes from
\* arbitrary::Arbitrary, or of kind Hash with exactly 32 bytes equal to the
\* cached hash.
GeneratedInstancesSynced ==
    last.op \in {"arbitrary", "arbitrary_with"} =>
        LET v == vals[last.slot]
        IN  \/ /\ v.kind = "Bytes"
               /\ v._hash = B256_default
               /\ last.op = "arbitrary_with" => Len(v.buf) <= 128
            \/ (v.kind = "Hash" /\ Len(v.buf) = 32 /\ v.buf = v._hash)

\* the proptest generator giving a hash other than zero in place of a value
\* of kind Bytes that held more than 128 bytes
GeneratedInstancesSyncedWitness ==
    /\ last.op = "arbitrary_with"
    /\ vals[last.slot].kind = "Hash" /\ vals[last.slot]._hash # B256_default
    /\ last.pre.kind = "Bytes" /\ Len(last.pre.buf) > 128

\* C16 - set_from_ref is history-independent: the value that set_from_ref(r)
\* has just produced equals, in buffer, kind and cached hash, what
\* set_from_ref(r) produces from any other value, that is from every value
\* held now, from the value held before the call and from a fresh one.
SetFromRefHistoryIndependent ==
    last.op = "set_from_ref" =>
        /\ \A t \in Slots :
              eq(vals[last.slot], set_from_ref(vals[t], last.value))
        /\ eq(vals[last.slot], set_from_ref(new, last.value))
        /\ \A h \in B256Samples :
              eq(vals[last.slot], set_from_ref([last.pre EXCEPT !._hash = h], last.value))

\* set_from_ref of a Bytes view on a value of kind Bytes with a stale hash,
\* the other value being of kind Hash
SetFromRefHistoryIndependentWitness ==
    \E t \in Slots \ {last.slot} :
        /\ last.op = "set_from_ref" /\ last.value.variant = "Bytes"
        /\ last.pre.kind = "Bytes" /\ last.pre._hash = H11 /\ last.pre.buf # <<>>
        /\ vals[t].kind = "Hash"

====
